---------------------------- MODULE Spec2Model ----------------------------
(***************************************************************************)
(* The geometry pipeline of aminui_maker: PointCalculator (magnitudes to   *)
(* a 2D profile), Shape3DRenderer (envelope, revolution mesh, frames) and  *)
(* the pipeline handler onGeneratePointCloud that connects them.           *)
(*                                                                         *)
(* Numbers.  JavaScript numbers are doubles.  Here a number is a fixed-    *)
(* point integer counting units of 1/Scale; a quotient and a square root   *)
(* are rounded down to that grid, as a double operation rounds to the      *)
(* nearest double.  Squares are kept exactly (in units of 1/Scale^2) until *)
(* the square root is taken.                                               *)
(***************************************************************************)
EXTENDS Integers, Sequences, FiniteSets, TLC

\* Resolution of the fixed-point numbers: units per 1.0.
Scale == 1000

\* Longest magnitude sequence drawn exhaustively over Magnitudes.
MaxLen == 3

\* Longest of the ramp sequences (one of every length MaxLen+1 .. MaxLong).
MaxLong == 16

\* Largest magnitude of an exhaustively drawn sequence.
MaxMagnitude == 3

\* Longest sequence passed in the specification of repeated calls.
MaxCallLen == 2

-----------------------------------------------------------------------------
(* Arithmetic of the Math object *)

\* 2 * Math.PI
TwoPi == (62832 * Scale) \div 10000

\* Math.PI
Pi == (31416 * Scale) \div 10000

Abs(a) == IF a < 0 THEN -a ELSE a

Max(a, b) == IF a >= b THEN a ELSE b

Min(a, b) == IF a <= b THEN a ELSE b

\* A quotient rounded towards zero.
Quot(a, b) == IF a >= 0 THEN a \div b ELSE -((-a) \div b)

RECURSIVE SqrtSearch(_, _, _)
SqrtSearch(v, lo, hi) ==
  IF lo >= hi THEN lo
  ELSE LET mid == (lo + hi + 1) \div 2
       IN IF mid * mid <= v THEN SqrtSearch(v, mid, hi)
                            ELSE SqrtSearch(v, lo, mid - 1)

\* Math.sqrt of a non-negative square (units 1/Scale^2): the largest grid
\* value whose square does not exceed it.
Sqrt(v) == SqrtSearch(v, 0, Min(v, 46340))

RECURSIVE CosSeries(_, _, _)
CosSeries(a, term, k) ==
  IF k > 6 \/ term = 0 THEN 0
  ELSE term + CosSeries(a, -Quot(Quot(Quot(term * a, Scale) * a, Scale),
                                    (2 * k + 1) * (2 * k + 2)), k + 1)

\* Math.cos of an angle in units of 1/Scale radian: reduction to
\* [0, Pi/2] followed by the power series.
Cos(angle) ==
  LET a0 == angle % TwoPi
      a1 == IF a0 > Pi THEN TwoPi - a0 ELSE a0
  IN IF 2 * a1 > Pi THEN -CosSeries(Pi - a1, Scale, 0)
                    ELSE CosSeries(a1, Scale, 0)

RECURSIVE SinSeries(_, _, _)
SinSeries(a, term, k) ==
  IF k > 6 \/ term = 0 THEN 0
  ELSE term + SinSeries(a, -Quot(Quot(Quot(term * a, Scale) * a, Scale),
                                    (2 * k + 2) * (2 * k + 3)), k + 1)

\* Math.sin, by the same reduction.
Sin(angle) ==
  LET a0 == angle % TwoPi
      a1 == IF a0 > Pi THEN a0 - Pi ELSE a0
      a2 == IF 2 * a1 > Pi THEN Pi - a1 ELSE a1
  IN IF a0 > Pi THEN -SinSeries(a2, a2, 0) ELSE SinSeries(a2, a2, 0)


-----------------------------------------------------------------------------
(* State *)

VARIABLES
  tableData,           \* TableManager.tableData: the sequence behind the generate button
  baseRadius,          \* PointCalculator.baseRadius
  radiusArray,         \* PointCalculator.radiusArray
  pointCloud,          \* PointCalculator.pointCloud
  consoleWarn,         \* console.warn lines of the most recent calculate call:
                       \*   the index of each point placed by the fallback branch
  AppState_pointCloud, \* AppState.pointCloud: what the most recent calculate returned
  infoPanel,           \* what updateInfoPanel last put into #info-panel
  envelopePoints,      \* the envelope the most recent generateShape built and logged
  points3D,            \* Shape3DRenderer.points3D
  faces,               \* Shape3DRenderer.faces
  centroid,            \* Shape3DRenderer.centroid
  rotation,            \* Shape3DRenderer.rotation
  zoom,                \* Shape3DRenderer.zoom
  autoRotate,          \* Shape3DRenderer.autoRotate
  canvas3d,            \* what the most recent frame drew on the 3D canvas
  p2d,                 \* Point2DRenderer: pointCloud, scale, offsetX, offsetY
  canvas2d,            \* what the most recent 2D render drew
  consoleLog,          \* the argument the most recent onGeneratePointCloud logged
                       \*   on entry (no entry before the first call)
  lastCall,            \* the handler that ran last
  baseNumber,          \* TableManager.baseNumber
  currentValue,        \* TableManager.currentValue
  isBaseSet,           \* TableManager.isBaseSet
  controls,            \* the buttons renderControls made: whether #checkBtn and
                       \*   #stayBtn are displayed, whether #resumeBtn is disabled
  tableCall,           \* the most recent call of a TableManager method: what it
                       \*   returned and how often it invoked this.changeCallback
  isDragging,          \* Shape3DRenderer.isDragging
  lastMouseX,          \* Shape3DRenderer.lastMouseX
  lastMouseY,          \* Shape3DRenderer.lastMouseY
  touches,             \* Shape3DRenderer.touches: the touch points of the last touch event
  lastTouchDistance    \* Shape3DRenderer.lastTouchDistance

\* The fields of TableManager beside tableData.
tableFields == <<baseNumber, currentValue, isBaseSet, controls, tableCall>>

\* What the generate pipeline writes.
pipelineFields == <<baseRadius, radiusArray, pointCloud, consoleWarn,
                    AppState_pointCloud, infoPanel, envelopePoints, points3D, faces,
                    centroid, p2d, canvas2d, consoleLog>>

\* The view of Shape3DRenderer and the frame it drew last.
viewFields == <<rotation, zoom, autoRotate, canvas3d>>

\* The pointer bookkeeping of Shape3DRenderer.
pointerFields == <<isDragging, lastMouseX, lastMouseY, touches, lastTouchDistance>>

vars == <<tableData, baseRadius, radiusArray, pointCloud, consoleWarn,
          AppState_pointCloud, infoPanel, envelopePoints, points3D, faces, centroid,
          rotation, zoom, autoRotate, canvas3d, p2d, canvas2d, consoleLog, lastCall,
          tableFields, pointerFields>>

-----------------------------------------------------------------------------
(* PointCalculator *)

\* circumference / (2 * Math.PI)
circumferenceToRadius(circumference) == (circumference * Scale * Scale) \div TwoPi

\* The distance without its factor: a variant the placement distance
\* property must reject.
placementDistanceUnscaled(base) == base

\* const distance = this.baseRadius * 1.3
placementDistance(base) == (base * 13) \div 10

\* { x: 0, y: radiusData.radius, index: radiusData.index }
firstPoint(radiusData) == [x |-> 0, y |-> radiusData.radius, index |-> radiusData.index]

\* The map with the array position as index: a variant the numbering
\* property must reject.
radiusMapZeroBased(data) ==
  [k \in 1..Len(data) |-> [radius |-> circumferenceToRadius(data[k]), index |-> k - 1]]

\* this.radiusArray = tableData.map(...)
radiusMap(data) ==
  [k \in 1..Len(data) |-> [radius |-> circumferenceToRadius(data[k]), index |-> k]]

\* The placement with the root taken to the left: a variant the
\* monotonicity property must reject.
calculateNextPointLeftward(base, prevPoint, targetY) ==
  LET distance == placementDistance(base)
      dy == targetY - prevPoint.y
      discriminant == distance * distance - dy * dy
  IN IF discriminant >= 0
       THEN [x |-> prevPoint.x - Sqrt(discriminant), y |-> targetY, warned |-> FALSE]
       ELSE [x |-> prevPoint.x, y |-> targetY, warned |-> TRUE]

\* The placement whose fallback moves on by the whole distance: a variant
\* the fallback property must reject.
calculateNextPointStepping(base, prevPoint, targetY) ==
  LET distance == placementDistance(base)
      dy == targetY - prevPoint.y
      discriminant == distance * distance - dy * dy
  IN IF discriminant >= 0
       THEN [x |-> prevPoint.x + Sqrt(discriminant), y |-> targetY, warned |-> FALSE]
       ELSE [x |-> prevPoint.x + Abs(distance), y |-> targetY, warned |-> TRUE]

\* The point after prevPoint at height targetY; warned tells whether
\* console.warn was called.
calculateNextPoint(base, prevPoint, targetY) ==
  LET distance == placementDistance(base)
      dy == targetY - prevPoint.y
      discriminant == distance * distance - dy * dy
  IN IF discriminant >= 0
       THEN [x |-> prevPoint.x + Sqrt(discriminant), y |-> targetY, warned |-> FALSE]
       ELSE [x |-> prevPoint.x, y |-> targetY, warned |-> TRUE]

\* The loop of calculate from position i (1-based) on: acc.cloud is
\* this.pointCloud so far, acc.warn the warnings so far.
RECURSIVE calculateLoop(_, _, _, _)
calculateLoop(radii, base, i, acc) ==
  IF i > Len(radii) THEN acc
  ELSE IF i = 1
    THEN calculateLoop(radii, base, i + 1,
           [cloud |-> Append(acc.cloud, firstPoint(radii[i])), warn |-> acc.warn])
    ELSE LET newPoint == calculateNextPoint(base, acc.cloud[i - 1], radii[i].radius)
         IN calculateLoop(radii, base, i + 1,
              [cloud |-> Append(acc.cloud, [x |-> newPoint.x, y |-> newPoint.y,
                                            index |-> radii[i].index]),
               warn |-> IF newPoint.warned THEN Append(acc.warn, radii[i].index)
                                         ELSE acc.warn])

\* calculate answering an empty input with the profile it holds: a variant
\* the empty-input property must reject.
calculateKeeping(self, given, data) ==
  IF ~given \/ Len(data) = 0
    THEN [baseRadius |-> self.baseRadius, radiusArray |-> self.radiusArray,
          pointCloud |-> self.pointCloud, warn |-> << >>, returned |-> self.pointCloud]
    ELSE LET radii == radiusMap(data)
             base == radii[1].radius
             run == calculateLoop(radii, base, 1, [cloud |-> << >>, warn |-> << >>])
         IN [baseRadius |-> base, radiusArray |-> radii,
             pointCloud |-> run.cloud, warn |-> run.warn, returned |-> run.cloud]

\* calculate(tableData) on the calculator `self`; given = FALSE is a call
\* with a missing (undefined or null) argument.  The result holds the
\* calculator's fields after the call, the returned array and the warnings.
calculate(self, given, data) ==
  IF ~given \/ Len(data) = 0
    THEN [baseRadius |-> self.baseRadius, radiusArray |-> self.radiusArray,
          pointCloud |-> self.pointCloud, warn |-> << >>, returned |-> << >>]
    ELSE LET radii == radiusMap(data)
             base == radii[1].radius
             run == calculateLoop(radii, base, 1, [cloud |-> << >>, warn |-> << >>])
         IN [baseRadius |-> base, radiusArray |-> radii,
             pointCloud |-> run.cloud, warn |-> run.warn, returned |-> run.cloud]

SeqMin(s) == CHOOSE v \in {s[k] : k \in 1..Len(s)} : \A k \in 1..Len(s) : v <= s[k]

SeqMax(s) == CHOOSE v \in {s[k] : k \in 1..Len(s)} : \A k \in 1..Len(s) : v >= s[k]

\* The null that getStats returns for an empty point cloud.
NoStats == [baseRadius |-> 0, pointCount |-> 0, xMin |-> 0, xMax |-> 0,
            yMin |-> 0, yMax |-> 0, isNull |-> TRUE]

\* getStats() on a calculator with these fields.
getStats(cloud, base) ==
  IF Len(cloud) = 0 THEN NoStats
  ELSE LET xValues == [k \in 1..Len(cloud) |-> cloud[k].x]
           yValues == [k \in 1..Len(cloud) |-> cloud[k].y]
       IN [baseRadius |-> base, pointCount |-> Len(cloud),
           xMin |-> SeqMin(xValues), xMax |-> SeqMax(xValues),
           yMin |-> SeqMin(yValues), yMax |-> SeqMax(yValues), isNull |-> FALSE]


-----------------------------------------------------------------------------
(* Shape3DRenderer: envelope, revolution mesh, centroid *)

\* this.rotationDivisions
rotationDivisions == 16

\* this.alphaRadius = 1.5
alphaRadius == (15 * Scale) \div 10

\* this.envelopeSmoothing = 0.3
envelopeSmoothing == (3 * Scale) \div 10

\* a * b of two fixed-point numbers, the product taken in two parts so that
\* it stays within the integers of the model checker.
RawMul(a, b) == (a \div Scale) * b + ((a % Scale) * b) \div Scale

Mul(a, b) ==
  IF (a >= 0) = (b >= 0) THEN RawMul(Abs(a), Abs(b)) ELSE -RawMul(Abs(a), Abs(b))

\* const sampleStep = Math.max(1, Math.floor(pointCloud2D.length / 8))
sampleStep(n) == Max(1, n \div 8)

\* Object identity.  An object is identified by the literal that allocated
\* it: the k-th object pushed by generateEnvelope, or the i-th element of
\* the array passed in as pointCloud2D.
envelopeObject(k) == <<"generateEnvelope", k>>

argumentObject(i) == <<"pointCloud2D", i>>

\* envelope[envelope.length - 1] !== pointCloud2D[pointCloud2D.length - 1]
lastNotIncluded(sampled, n) == envelopeObject(sampled) # argumentObject(n)

\* The envelope before smoothing: the stride samples, their y expanded by
\* alphaRadius, and the last point appended when the test above says so.
envelopeSamples(pointCloud2D) ==
  LET n == Len(pointCloud2D)
      step == sampleStep(n)
      count == (n + step - 1) \div step
      expand(point) == [x |-> point.x, y |-> Mul(point.y, alphaRadius)]
      strided == [k \in 1..count |-> expand(pointCloud2D[(k - 1) * step + 1])]
  IN IF lastNotIncluded(count, n)
       THEN Append(strided, expand(pointCloud2D[n]))
       ELSE strided

\* The smoothing that leaves the two end points out: a variant the length
\* property must reject.
smoothEnvelopeInterior(envelope) ==
  IF Len(envelope) < 3 THEN envelope
  ELSE [i \in 1..Len(envelope) - 2 |->
         LET prev == envelope[i]
             curr == envelope[i + 1]
             next == envelope[i + 2]
             weight == envelopeSmoothing
         IN [x |-> Mul(curr.x, Scale - weight) + Quot(Mul(prev.x + next.x, weight), 2),
             y |-> Mul(curr.y, Scale - weight) + Quot(Mul(prev.y + next.y, weight), 2)]]

smoothEnvelope(envelope) ==
  IF Len(envelope) < 3 THEN envelope
  ELSE [i \in 1..Len(envelope) |->
         LET prev == envelope[Max(1, i - 1)]
             curr == envelope[i]
             next == envelope[Min(Len(envelope), i + 1)]
             weight == envelopeSmoothing
         IN [x |-> Mul(curr.x, Scale - weight) + Quot(Mul(prev.x + next.x, weight), 2),
             y |-> Mul(curr.y, Scale - weight) + Quot(Mul(prev.y + next.y, weight), 2)]]

generateEnvelope(pointCloud2D) ==
  IF Len(pointCloud2D) < 2 THEN pointCloud2D
  ELSE IF envelopeSmoothing > 0 THEN smoothEnvelope(envelopeSamples(pointCloud2D))
  ELSE envelopeSamples(pointCloud2D)

\* The vertices stored angle by angle instead of point by point: a variant
\* the layout property must reject.
generate3DPointsAngleMajor(pointCloud2D) ==
  LET divisions == rotationDivisions
      ring == [i \in 0..divisions - 1 |->
                [cos |-> Cos((TwoPi * i) \div divisions), sin |-> Sin((TwoPi * i) \div divisions)]]
  IN [p \in 1..Len(pointCloud2D) * divisions |->
       LET pointIndex == (p - 1) % Len(pointCloud2D)
           i == (p - 1) \div Len(pointCloud2D)
           point == pointCloud2D[pointIndex + 1]
       IN [x |-> point.x, y |-> Mul(point.y, ring[i].cos), z |-> Mul(point.y, ring[i].sin),
           originalIndex |-> pointIndex, rotationIndex |-> i]]

generate3DPoints(pointCloud2D) ==
  LET divisions == rotationDivisions
      ring == [i \in 0..divisions - 1 |->
                [cos |-> Cos((TwoPi * i) \div divisions), sin |-> Sin((TwoPi * i) \div divisions)]]
  IN [p \in 1..Len(pointCloud2D) * divisions |->
       LET pointIndex == (p - 1) \div divisions
           i == (p - 1) % divisions
           point == pointCloud2D[pointIndex + 1]
       IN [x |-> point.x, y |-> Mul(point.y, ring[i].cos), z |-> Mul(point.y, ring[i].sin),
           originalIndex |-> pointIndex, rotationIndex |-> i]]

\* The hue without its reduction modulo 360: a variant the colour property
\* must reject.
getColorForFaceUnwrapped(ringIndex, segmentIndex) ==
  <<"hsl", ringIndex * 30 + segmentIndex * 5, 70, 60>>

\* `hsl(${hue}, 70%, 60%)`
getColorForFace(ringIndex, segmentIndex) ==
  <<"hsl", (ringIndex * 30 + segmentIndex * 5) % 360, 70, 60>>

\* '#666666'
capColor == <<"rgb", 102, 102, 102>>

\* The quad's triangles with the next angular step not taken modulo the
\* divisions: a variant the index property must reject.
sideFaceUnwrapped(i, j, half) ==
  LET divisions == rotationDivisions
      nextJ == j + 1
      idx1 == i * divisions + j
      idx2 == i * divisions + nextJ
      idx3 == (i + 1) * divisions + nextJ
      idx4 == (i + 1) * divisions + j
  IN [indices |-> IF half = 0 THEN <<idx1, idx2, idx3>> ELSE <<idx1, idx3, idx4>>,
      color |-> getColorForFace(i, j)]

\* The two triangles of quad (i, j), first (half = 0) and second (half = 1).
sideFace(i, j, half) ==
  LET divisions == rotationDivisions
      nextJ == (j + 1) % divisions
      idx1 == i * divisions + j
      idx2 == i * divisions + nextJ
      idx3 == (i + 1) * divisions + nextJ
      idx4 == (i + 1) * divisions + j
  IN [indices |-> IF half = 0 THEN <<idx1, idx2, idx3>> ELSE <<idx1, idx3, idx4>>,
      color |-> getColorForFace(i, j)]

sideFaces(pointCount) ==
  LET divisions == rotationDivisions
  IN [q \in 1..2 * divisions * (pointCount - 1) |->
       sideFace(((q - 1) \div 2) \div divisions, ((q - 1) \div 2) % divisions, (q - 1) % 2)]

\* pointCloud2D.length > 0 && pointCloud2D[0].x !== 0
needsCap(pointCloud2D) == Len(pointCloud2D) > 0 /\ pointCloud2D[1].x # 0

capFaces(centerIndex) ==
  [q \in 1..rotationDivisions |->
    [indices |-> <<centerIndex, q % rotationDivisions, q - 1>>, color |-> capColor]]

\* generateMesh(pointCloud2D) with this.points3D = points: the faces it
\* returns and this.points3D after the call.
generateMesh(pointCloud2D, points) ==
  IF needsCap(pointCloud2D)
    THEN [points3D |-> Append(points, [x |-> pointCloud2D[1].x, y |-> 0, z |-> 0]),
          faces |-> sideFaces(Len(pointCloud2D)) \o capFaces(Len(points))]
    ELSE [points3D |-> points, faces |-> sideFaces(Len(pointCloud2D))]

\* The sum of one coordinate over points[lo..hi], halving the range.
RECURSIVE sumOf(_, _, _, _)
sumOf(points, field, lo, hi) ==
  IF lo > hi THEN 0
  ELSE IF lo = hi
    THEN (IF field = "x" THEN points[lo].x
          ELSE IF field = "y" THEN points[lo].y ELSE points[lo].z)
    ELSE sumOf(points, field, lo, (lo + hi) \div 2)
         + sumOf(points, field, (lo + hi) \div 2 + 1, hi)

\* The mean over the ring vertices alone, as if taken before the centre
\* vertex is appended: a variant the centroid property must reject.
calculateCentroidRings(points) ==
  LET count == (Len(points) \div rotationDivisions) * rotationDivisions
  IN IF count = 0 THEN [x |-> 0, y |-> 0, z |-> 0]
     ELSE [x |-> Quot(sumOf(points, "x", 1, count), count),
           y |-> Quot(sumOf(points, "y", 1, count), count),
           z |-> Quot(sumOf(points, "z", 1, count), count)]

calculateCentroid(points) ==
  IF Len(points) = 0 THEN [x |-> 0, y |-> 0, z |-> 0]
  ELSE [x |-> Quot(sumOf(points, "x", 1, Len(points)), Len(points)),
        y |-> Quot(sumOf(points, "y", 1, Len(points)), Len(points)),
        z |-> Quot(sumOf(points, "z", 1, Len(points)), Len(points))]

\* generateShape pushing the new vertices onto the stored ones instead of
\* replacing them: a variant the idempotence property must reject.
generateShapeAccumulating(pointCloud2D) ==
  LET envelope == generateEnvelope(pointCloud2D)
      mesh == generateMesh(envelope, points3D \o generate3DPoints(envelope))
  IN [envelopePoints |-> envelope, points3D |-> mesh.points3D, faces |-> mesh.faces,
      centroid |-> calculateCentroid(mesh.points3D)]

\* generateShape(pointCloud2D): the renderer's mesh fields after the call.
generateShape(pointCloud2D) ==
  LET envelope == generateEnvelope(pointCloud2D)
      mesh == generateMesh(envelope, generate3DPoints(envelope))
  IN [envelopePoints |-> envelope, points3D |-> mesh.points3D, faces |-> mesh.faces,
      centroid |-> calculateCentroid(mesh.points3D)]


-----------------------------------------------------------------------------
(* Shape3DRenderer: frames *)

\* The 3D canvas element's size.
canvas3dSize == [width |-> 300 * Scale, height |-> 150 * Scale]

\* The cosines and sines rotatePoint takes of this.rotation.
viewTrig(rot) ==
  [cosX |-> Cos(rot.x), sinX |-> Sin(rot.x), cosY |-> Cos(rot.y), sinY |-> Sin(rot.y)]

rotatePoint(point, c, trig) ==
  LET x == point.x - c.x
      y == point.y - c.y
      z == point.z - c.z
      y1 == Mul(y, trig.cosX) - Mul(z, trig.sinX)
      z1 == Mul(y, trig.sinX) + Mul(z, trig.cosX)
      x2 == Mul(x, trig.cosY) + Mul(z1, trig.sinY)
      z2 == Mul(z1, trig.cosY) - Mul(x, trig.sinY)
  IN [x |-> x2 + c.x, y |-> y1 + c.y, z |-> z2 + c.z]

project3DTo2D(point, c, trig, zm) ==
  LET rotated == rotatePoint(point, c, trig)
      relX == rotated.x - c.x
      relY == rotated.y - c.y
      relZ == rotated.z - c.z
      perspective == 500 * Scale
      scale == Mul(Quot(perspective * Scale, perspective + relZ), zm) * 50
  IN [x |-> canvas3dSize.width \div 2 + Mul(relX, scale),
      y |-> canvas3dSize.height \div 2 - Mul(relY, scale),
      z |-> relZ]

\* The mean rotated z of a face's vertices.
faceDepth(face, points, c, trig) ==
  Quot(rotatePoint(points[face.indices[1] + 1], c, trig).z
       + rotatePoint(points[face.indices[2] + 1], c, trig).z
       + rotatePoint(points[face.indices[3] + 1], c, trig).z, 3)

\* The entries of s in the order given by place: place[k] is the position
\* entry k takes.
arrange(s, place) == [r \in 1..Len(s) |-> s[CHOOSE k \in 1..Len(s) : place[k] = r]]

\* An entry's place after the sort: the number of entries that sort before
\* it (those of smaller depth, and those of equal depth that precede it)
\* plus one.
depthRanks(s) ==
  [k \in 1..Len(s) |->
    1 + Cardinality({g \in 1..Len(s) :
          s[g].avgZ < s[k].avgZ \/ (s[g].avgZ = s[k].avgZ /\ g < k)})]

\* The faces left in stored order.
storedOrder(s) == s

\* facesWithDepth.sort((a, b) => a.avgZ - b.avgZ): ascending and stable.
sortByDepth(s) ==
  CHOOSE sorted \in {arrange(s, place) : place \in {depthRanks(s)}} : TRUE

\* points.every(p => p): every index of the face has a projected point.
allProjected(face, projectedPoints) ==
  \A k \in 1..3 : face.indices[k] >= 0 /\ face.indices[k] < Len(projectedPoints)

\* The faces of `order` (0-based positions in this.faces) that get drawn.
drawnFaces(order, fs, projectedPoints) ==
  LET drawn(f) == allProjected(fs[f + 1], projectedPoints)
  IN SelectSeq(order, drawn)

\* The calls of ctx.fill() and ctx.stroke() of a frame in the order they are
\* made: drawFace for every sorted face, then drawWireframe.
drawCalls(filled, stroked) ==
  [k \in 1..Len(filled) |-> [face |-> filled[k], call |-> "fill"]]
    \o [k \in 1..Len(stroked) |-> [face |-> stroked[k], call |-> "stroke"]]

\* The frame: the projected points, the faces filled in sorted order and
\* the faces stroked by drawWireframe in stored order (0-based positions
\* in this.faces).
drawFrame(fs, projectedPoints, sorted) ==
  LET filled == drawnFaces([k \in 1..Len(sorted) |-> sorted[k].face], fs,
                          projectedPoints)
      stroked == drawnFaces([k \in 1..Len(fs) |-> k - 1], fs, projectedPoints)
  IN [message |-> FALSE, projected |-> projectedPoints, fills |-> filled,
      strokes |-> stroked, calls |-> drawCalls(filled, stroked)]

renderMesh(points, fs, c, trig, zm) ==
  drawFrame(fs,
            [k \in 1..Len(points) |-> project3DTo2D(points[k], c, trig, zm)],
            sortByDepth([k \in 1..Len(fs) |->
                          [face |-> k - 1, avgZ |-> faceDepth(fs[k], points, c, trig)]]))

\* render(): what a frame draws from the renderer's fields.
render(points, fs, c, rot, zm) ==
  IF Len(points) = 0
    THEN [message |-> TRUE, projected |-> << >>, fills |-> << >>, strokes |-> << >>,
          calls |-> << >>]
    ELSE renderMesh(points, fs, c, viewTrig(rot), zm)

-----------------------------------------------------------------------------
(* Point2DRenderer *)

\* The 2D canvas element's size and this.padding.
canvas2dSize == [width |-> 300 * Scale, height |-> 150 * Scale]

padding == 50 * Scale

\* a / b of two fixed-point numbers.
Div(a, b) == Quot(a * Scale, b)

\* calculateViewport(): scale, offsetX and offsetY for the point cloud.
calculateViewport(cloud) ==
  LET xValues == [k \in 1..Len(cloud) |-> cloud[k].x]
      yValues == [k \in 1..Len(cloud) |-> cloud[k].y]
      xMin == Min(SeqMin(xValues), 0)
      xMax == SeqMax(xValues)
      yMin == Min(SeqMin(yValues), 0)
      yMax == SeqMax(yValues)
      dataWidth == xMax - xMin
      dataHeight == yMax - yMin
      canvasWidth == canvas2dSize.width - 2 * padding
      canvasHeight == canvas2dSize.height - 2 * padding
      orOne(v) == IF v = 0 THEN Scale ELSE v
      scaleX == Div(canvasWidth, orOne(Quot(dataWidth * 12, 10)))
      scaleY == Div(canvasHeight, orOne(Quot(dataHeight * 12, 10)))
      scale == Min(scaleX, scaleY)
  IN [scale |-> scale,
      offsetX |-> padding + Quot(canvasWidth - Mul(dataWidth, scale), 2) - Mul(xMin, scale),
      offsetY |-> canvas2dSize.height - padding
                  - Quot(canvasHeight - Mul(dataHeight, scale), 2) + Mul(yMin, scale)]

toCanvasCoords(view, x, y) ==
  [x |-> view.offsetX + Mul(x, view.scale), y |-> view.offsetY - Mul(y, view.scale)]

\* render(pointCloud) on the 2D renderer `self`: its fields after the call
\* and what it drew (the placeholder message, or the line and the points).
render2D(self, cloud) ==
  IF Len(cloud) = 0
    THEN [self |-> self, canvas |-> [points |-> << >>, message |-> TRUE, lines |-> FALSE]]
    ELSE LET view == calculateViewport(cloud)
         IN [self |-> [pointCloud |-> cloud, scale |-> view.scale,
                       offsetX |-> view.offsetX, offsetY |-> view.offsetY],
             canvas |-> [points |-> [k \in 1..Len(cloud) |->
                                      [at |-> toCanvasCoords(view, cloud[k].x, cloud[k].y),
                                       label |-> cloud[k].index]],
                         message |-> FALSE, lines |-> Len(cloud) >= 2]]


-----------------------------------------------------------------------------
(* The pipeline handler and the frame loop *)

\* value.toFixed(2): the number of hundredths nearest to value.
toFixed2(v) == (2 * v * 100 + Scale) \div (2 * Scale)

\* updateInfoPanel(stats, shape3D): the panel's content.
updateInfoPanel(stats, shape) ==
  IF stats.isNull
    THEN [baseRadius |-> 0, pointCount |-> 0, xMin |-> 0, xMax |-> 0, yMin |-> 0,
          yMax |-> 0, empty |-> TRUE, points3DCount |-> 0, facesCount |-> 0]
    ELSE [baseRadius |-> toFixed2(stats.baseRadius), pointCount |-> stats.pointCount,
          xMin |-> toFixed2(stats.xMin), xMax |-> toFixed2(stats.xMax),
          yMin |-> toFixed2(stats.yMin), yMax |-> toFixed2(stats.yMax),
          empty |-> FALSE,
          points3DCount |-> Len(shape.points3D), facesCount |-> Len(shape.faces)]

\* onGeneratePointCloud(tableData); given = FALSE is a call without data.
\* commitPipeline assigns the fields the handler's calls leave.
commitPipeline(calc, drawn, shape) ==
  /\ baseRadius' = calc.baseRadius
  /\ radiusArray' = calc.radiusArray
  /\ pointCloud' = calc.pointCloud
  /\ consoleWarn' = calc.warn
  /\ AppState_pointCloud' = calc.returned
  /\ p2d' = drawn.self
  /\ canvas2d' = drawn.canvas
  /\ envelopePoints' = shape.envelopePoints
  /\ points3D' = shape.points3D
  /\ faces' = shape.faces
  /\ centroid' = shape.centroid
  /\ infoPanel' = updateInfoPanel(getStats(calc.pointCloud, calc.baseRadius), shape)
  /\ lastCall' = "onGeneratePointCloud"
  /\ UNCHANGED <<tableData, rotation, zoom, autoRotate, canvas3d, tableFields,
                 pointerFields>>

\* The steps of onGeneratePointCloud after calculate: the 2D render, the
\* shape generation, the info panel.
runPipeline(calc) ==
  commitPipeline(calc, render2D(p2d, calc.returned), generateShape(calc.returned))

onGeneratePointCloud(given, data) ==
  /\ consoleLog' = <<[data |-> data, given |-> given]>>
  /\ runPipeline(calculate([baseRadius |-> baseRadius, radiusArray |-> radiusArray,
                            pointCloud |-> pointCloud], given, data))

\* The click listener of the generate button, which renderTable creates
\* only for a non-empty table.
GenerateClick ==
  /\ Len(tableData) > 0
  /\ onGeneratePointCloud(TRUE, tableData)

\* The largest rotation, in radians, that drags and auto-rotation are let
\* reach.
MaxTurn == 1

\* The rotation is within that range.
withinTurn(rot) == Abs(rot.x) <= MaxTurn * Scale /\ Abs(rot.y) <= MaxTurn * Scale

\* animate() turning whether autoRotate is set or not.
animateTurning ==
  LET turned == [rotation EXCEPT !.y = @ + Scale \div 100]
  IN /\ withinTurn(turned)
     /\ rotation' = turned
     /\ canvas3d' = render(points3D, faces, centroid, turned, zoom)
     /\ lastCall' = "animate"
     /\ UNCHANGED <<tableData, baseRadius, radiusArray, pointCloud, consoleWarn,
                    AppState_pointCloud, infoPanel, envelopePoints, points3D, faces,
                    centroid, zoom, autoRotate, p2d, canvas2d, consoleLog,
                    tableFields, pointerFields>>

\* animate(): one frame.
animate ==
  LET turned == IF autoRotate THEN [rotation EXCEPT !.y = @ + Scale \div 100]
                              ELSE rotation
  IN /\ withinTurn(turned)
     /\ rotation' = turned
     /\ canvas3d' = render(points3D, faces, centroid, turned, zoom)
     /\ lastCall' = "animate"
     /\ UNCHANGED <<tableData, baseRadius, radiusArray, pointCloud, consoleWarn,
                    AppState_pointCloud, infoPanel, envelopePoints, points3D, faces,
                    centroid, zoom, autoRotate, p2d, canvas2d, consoleLog,
                    tableFields, pointerFields>>

-----------------------------------------------------------------------------
(* Shape3DRenderer: the listeners of attachEventListeners *)

\* Pointer positions are taken from the two ends of a diagonal of
\* 3 * MaxDrag by 4 * MaxDrag pixels.
MaxDrag == 20

\* The most touch points of one touch event.
MaxTouches == 2

\* The same without the lower limit.
clampZoomAbove(z) == Min(5 * Scale, z)

\* this.zoom = Math.max(0.1, Math.min(5, this.zoom))
clampZoom(z) == Max(Scale \div 10, Min(5 * Scale, z))

\* getTouchDistance() with this.touches = ts, to the tenth of a pixel.
getTouchDistance(ts) ==
  IF Len(ts) < 2 THEN 0
  ELSE LET dx == ts[1].clientX - ts[2].clientX
           dy == ts[1].clientY - ts[2].clientY
       IN (Sqrt((dx * dx + dy * dy) * 100) * Scale) \div 10

\* this.rotation.y += deltaX * 0.01; this.rotation.x += deltaY * 0.01
dragRotation(rot, deltaX, deltaY) ==
  [x |-> rot.x + Quot(deltaY * Scale, 100), y |-> rot.y + Quot(deltaX * Scale, 100),
   z |-> rot.z]

\* The mousedown listener.
mousedown(e) ==
  /\ isDragging' = TRUE
  /\ lastMouseX' = e.clientX
  /\ lastMouseY' = e.clientY
  /\ lastCall' = "mousedown"
  /\ UNCHANGED <<tableData, tableFields, pipelineFields, viewFields, touches,
                 lastTouchDistance>>

\* The mousemove listener without its test of isDragging.
mousemoveAlways(e) ==
  /\ rotation' = dragRotation(rotation, e.clientX - lastMouseX, e.clientY - lastMouseY)
  /\ withinTurn(rotation')
  /\ lastMouseX' = e.clientX
  /\ lastMouseY' = e.clientY
  /\ lastCall' = "mousemove"
  /\ UNCHANGED <<tableData, tableFields, pipelineFields, zoom, autoRotate, canvas3d,
                 isDragging, touches, lastTouchDistance>>

\* The mousemove listener.
mousemove(e) ==
  /\ IF isDragging
       THEN /\ rotation' = dragRotation(rotation, e.clientX - lastMouseX,
                                        e.clientY - lastMouseY)
            /\ withinTurn(rotation')
            /\ lastMouseX' = e.clientX
            /\ lastMouseY' = e.clientY
       ELSE UNCHANGED <<rotation, lastMouseX, lastMouseY>>
  /\ lastCall' = "mousemove"
  /\ UNCHANGED <<tableData, tableFields, pipelineFields, zoom, autoRotate, canvas3d,
                 isDragging, touches, lastTouchDistance>>

\* The mouseup listener.
mouseup ==
  /\ isDragging' = FALSE
  /\ lastCall' = "mouseup"
  /\ UNCHANGED <<tableData, tableFields, pipelineFields, viewFields, lastMouseX,
                 lastMouseY, touches, lastTouchDistance>>

\* The mouseleave listener.
mouseleave ==
  /\ isDragging' = FALSE
  /\ lastCall' = "mouseleave"
  /\ UNCHANGED <<tableData, tableFields, pipelineFields, viewFields, lastMouseX,
                 lastMouseY, touches, lastTouchDistance>>

\* The wheel listener.
wheel(e) ==
  /\ zoom' = clampZoom(Mul(zoom, Scale - Quot(e.deltaY * Scale, 1000)))
  /\ lastCall' = "wheel"
  /\ UNCHANGED <<tableData, tableFields, pipelineFields, rotation, autoRotate,
                 canvas3d, pointerFields>>

\* The touchstart listener.
touchstart(e) ==
  /\ touches' = e.touches
  /\ IF Len(e.touches) = 1
       THEN /\ isDragging' = TRUE
            /\ lastMouseX' = e.touches[1].clientX
            /\ lastMouseY' = e.touches[1].clientY
            /\ UNCHANGED lastTouchDistance
       ELSE IF Len(e.touches) = 2
              THEN /\ isDragging' = FALSE
                   /\ lastTouchDistance' = getTouchDistance(e.touches)
                   /\ UNCHANGED <<lastMouseX, lastMouseY>>
              ELSE UNCHANGED <<isDragging, lastMouseX, lastMouseY, lastTouchDistance>>
  /\ lastCall' = "touchstart"
  /\ UNCHANGED <<tableData, tableFields, pipelineFields, viewFields>>

\* The touchmove listener.
touchmove(e) ==
  /\ touches' = e.touches
  /\ IF Len(e.touches) = 1 /\ isDragging
       THEN /\ rotation' = dragRotation(rotation, e.touches[1].clientX - lastMouseX,
                                        e.touches[1].clientY - lastMouseY)
            /\ withinTurn(rotation')
            /\ lastMouseX' = e.touches[1].clientX
            /\ lastMouseY' = e.touches[1].clientY
            /\ UNCHANGED <<zoom, lastTouchDistance>>
       ELSE IF Len(e.touches) = 2
              THEN LET currentDistance == getTouchDistance(e.touches)
                       delta == currentDistance - lastTouchDistance
                   IN /\ zoom' = clampZoom(Mul(zoom, Scale + Quot(delta, 100)))
                      /\ lastTouchDistance' = currentDistance
                      /\ UNCHANGED <<rotation, lastMouseX, lastMouseY>>
              ELSE UNCHANGED <<rotation, zoom, lastMouseX, lastMouseY,
                               lastTouchDistance>>
  /\ lastCall' = "touchmove"
  /\ UNCHANGED <<tableData, tableFields, pipelineFields, autoRotate, canvas3d,
                 isDragging>>

\* The touchend listener.
touchend(e) ==
  /\ touches' = e.touches
  /\ IF Len(e.touches) = 0
       THEN /\ isDragging' = FALSE
            /\ lastTouchDistance' = 0
            /\ UNCHANGED <<lastMouseX, lastMouseY>>
       ELSE IF Len(e.touches) = 1
              THEN /\ isDragging' = TRUE
                   /\ lastMouseX' = e.touches[1].clientX
                   /\ lastMouseY' = e.touches[1].clientY
                   /\ lastTouchDistance' = 0
              ELSE UNCHANGED <<isDragging, lastMouseX, lastMouseY, lastTouchDistance>>
  /\ lastCall' = "touchend"
  /\ UNCHANGED <<tableData, tableFields, pipelineFields, viewFields>>

\* The touchcancel listener.
touchcancel ==
  /\ isDragging' = FALSE
  /\ touches' = << >>
  /\ lastTouchDistance' = 0
  /\ lastCall' = "touchcancel"
  /\ UNCHANGED <<tableData, tableFields, pipelineFields, viewFields, lastMouseX,
                 lastMouseY>>

\* toggleAutoRotate()
toggleAutoRotate ==
  /\ autoRotate' = ~autoRotate
  /\ lastCall' = "toggleAutoRotate"
  /\ UNCHANGED <<tableData, tableFields, pipelineFields, rotation, zoom, canvas3d,
                 pointerFields>>

-----------------------------------------------------------------------------
(* TableManager: src/modules/point2DRenderer.js *)

\* The most columns the table is let grow to.
MaxColumns == 2

\* The largest value Up is let reach before the base number is set.
MaxBase == 2

\* A method that returns nothing and does not invoke this.changeCallback.
silent == [returned |-> "undefined", changeCallback |-> 0]

\* A method that returns nothing and invokes this.changeCallback once.
notifying == [returned |-> "undefined", changeCallback |-> 1]

\* addToTable(value): push; the Resume button is enabled.  The change
\* callback, updatePipeline, reads the table and logs.
addToTable(value, checkBtnShown, stayBtnShown) ==
  /\ Len(tableData) < MaxColumns
  /\ tableData' = Append(tableData, value)
  /\ controls' = [checkBtnShown |-> checkBtnShown, stayBtnShown |-> stayBtnShown,
                  resumeBtnDisabled |-> FALSE]
  /\ tableCall' = notifying

\* handleUpDown(delta): the click listeners of #upBtn (1) and #downBtn (-1).
handleUpDown(delta) ==
  /\ IF ~isBaseSet
       THEN /\ currentValue + delta <= MaxBase
            /\ currentValue' = Max(1, currentValue + delta)
            /\ tableCall' = silent
            /\ UNCHANGED <<tableData, controls>>
       ELSE LET previousValue == IF Len(tableData) > 0 THEN tableData[Len(tableData)]
                                                      ELSE baseNumber
                value == previousValue + delta * baseNumber
            IN /\ currentValue' = value
               /\ addToTable(value, controls.checkBtnShown, controls.stayBtnShown)
  /\ lastCall' = "handleUpDown"
  /\ UNCHANGED <<baseNumber, isBaseSet, pipelineFields, viewFields, pointerFields>>

\* handleStay(): the click listener of #stayBtn.
handleStay ==
  /\ controls.stayBtnShown
  /\ IF isBaseSet /\ Len(tableData) > 0
       THEN /\ currentValue' = tableData[Len(tableData)]
            /\ addToTable(tableData[Len(tableData)], controls.checkBtnShown,
                          controls.stayBtnShown)
       ELSE /\ tableCall' = silent
            /\ UNCHANGED <<currentValue, tableData, controls>>
  /\ lastCall' = "handleStay"
  /\ UNCHANGED <<baseNumber, isBaseSet, pipelineFields, viewFields, pointerFields>>

\* handleCheck(): the click listener of #checkBtn.
handleCheck ==
  /\ controls.checkBtnShown
  /\ IF ~isBaseSet
       THEN /\ baseNumber' = currentValue
            /\ isBaseSet' = TRUE
            /\ addToTable(currentValue, FALSE, TRUE)
       ELSE /\ addToTable(currentValue, controls.checkBtnShown, controls.stayBtnShown)
            /\ UNCHANGED <<baseNumber, isBaseSet>>
  /\ lastCall' = "handleCheck"
  /\ UNCHANGED <<currentValue, pipelineFields, viewFields, pointerFields>>

\* handleResume() leaving isBaseSet and the buttons as they are when the
\* last column goes.
handleResumeBaseKept ==
  /\ ~controls.resumeBtnDisabled
  /\ IF Len(tableData) > 0
       THEN LET popped == SubSeq(tableData, 1, Len(tableData) - 1)
            IN /\ tableData' = popped
               /\ tableCall' = notifying
               /\ currentValue' = IF Len(popped) = 0 THEN 1 ELSE popped[Len(popped)]
       ELSE /\ tableCall' = silent
            /\ UNCHANGED <<tableData, currentValue>>
  /\ lastCall' = "handleResume"
  /\ UNCHANGED <<baseNumber, isBaseSet, controls, pipelineFields, viewFields,
                 pointerFields>>

\* handleResume(): the click listener of #resumeBtn.
handleResume ==
  /\ ~controls.resumeBtnDisabled
  /\ IF Len(tableData) > 0
       THEN LET popped == SubSeq(tableData, 1, Len(tableData) - 1)
            IN /\ tableData' = popped
               /\ tableCall' = notifying
               /\ IF Len(popped) = 0
                    THEN /\ isBaseSet' = FALSE
                         /\ currentValue' = 1
                         /\ controls' = [checkBtnShown |-> TRUE, stayBtnShown |-> FALSE,
                                         resumeBtnDisabled |-> TRUE]
                    ELSE /\ currentValue' = popped[Len(popped)]
                         /\ UNCHANGED <<isBaseSet, controls>>
       ELSE /\ tableCall' = silent
            /\ UNCHANGED <<tableData, isBaseSet, currentValue, controls>>
  /\ lastCall' = "handleResume"
  /\ UNCHANGED <<baseNumber, pipelineFields, viewFields, pointerFields>>

\* handleReset() clearing the shape with the table.
handleResetClearing ==
  /\ baseNumber' = 1
  /\ currentValue' = 1
  /\ tableData' = << >>
  /\ isBaseSet' = FALSE
  /\ controls' = [checkBtnShown |-> TRUE, stayBtnShown |-> FALSE,
                  resumeBtnDisabled |-> TRUE]
  /\ tableCall' = notifying
  /\ lastCall' = "handleReset"
  /\ points3D' = << >>
  /\ faces' = << >>
  /\ UNCHANGED <<baseRadius, radiusArray, pointCloud, consoleWarn, AppState_pointCloud,
                 infoPanel, envelopePoints, centroid, p2d, canvas2d, consoleLog,
                 viewFields, pointerFields>>

\* handleReset(), the confirm dialog accepted.
handleReset ==
  /\ baseNumber' = 1
  /\ currentValue' = 1
  /\ tableData' = << >>
  /\ isBaseSet' = FALSE
  /\ controls' = [checkBtnShown |-> TRUE, stayBtnShown |-> FALSE,
                  resumeBtnDisabled |-> TRUE]
  /\ tableCall' = notifying
  /\ lastCall' = "handleReset"
  /\ UNCHANGED <<pipelineFields, viewFields, pointerFields>>

\* handleReset(), the confirm dialog cancelled.
handleResetCancelled ==
  /\ tableCall' = silent
  /\ lastCall' = "handleReset"
  /\ UNCHANGED <<tableData, baseNumber, currentValue, isBaseSet, controls,
                 pipelineFields, viewFields, pointerFields>>

\* setData(data); the empty sequence also stands for a value that is not an
\* array.
setData(data) ==
  /\ IF Len(data) > 0
       THEN /\ tableData' = data
            /\ baseNumber' = data[1]
            /\ currentValue' = data[Len(data)]
            /\ isBaseSet' = TRUE
            /\ controls' = [checkBtnShown |-> FALSE, stayBtnShown |-> TRUE,
                            resumeBtnDisabled |-> FALSE]
       ELSE UNCHANGED <<tableData, baseNumber, currentValue, isBaseSet, controls>>
  /\ tableCall' = silent
  /\ lastCall' = "setData"
  /\ UNCHANGED <<pipelineFields, viewFields, pointerFields>>

\* JSON.parse(jsonString) returns and importData.tableData is an array.
\* The text of a file is "json" when it parses to an object with an array
\* tableData, "no json" when JSON.parse throws, "no tableData" when the
\* object has none and "no array" when tableData is something else.
parsesToTable(importData) == importData.text = "json"

\* importFromJson(jsonString) with the changes of a successful import made
\* before the validation.
importFromJsonUnvalidated(importData) ==
  /\ tableData' = importData.tableData
  /\ tableCall' = [returned |-> IF parsesToTable(importData)
                                   /\ Len(importData.tableData) > 0
                                  THEN "true" ELSE "false",
                   changeCallback |-> 1]
  /\ lastCall' = "importFromJson"
  /\ UNCHANGED <<baseNumber, currentValue, isBaseSet, controls, pipelineFields,
                 viewFields, pointerFields>>

\* importFromJson(jsonString).  A baseNumber or currentValue of 0 stands for
\* every falsy value, an absent one included; isBaseSet is "undefined" when
\* the file has none.
importFromJson(importData) ==
  LET given == importData.tableData
      based == IF importData.isBaseSet = "undefined" THEN TRUE
               ELSE importData.isBaseSet = "true"
  IN /\ IF parsesToTable(importData) /\ Len(given) > 0
          THEN /\ tableData' = given
               /\ baseNumber' = IF importData.baseNumber # 0
                                  THEN importData.baseNumber ELSE given[1]
               /\ currentValue' = IF importData.currentValue # 0
                                    THEN importData.currentValue ELSE given[Len(given)]
               /\ isBaseSet' = based
               /\ controls' = [checkBtnShown |-> ~based, stayBtnShown |-> based,
                               resumeBtnDisabled |-> ~based]
               /\ tableCall' = [returned |-> "true", changeCallback |-> 1]
          ELSE /\ tableCall' = [returned |-> "false", changeCallback |-> 0]
               /\ UNCHANGED <<tableData, baseNumber, currentValue, isBaseSet,
                              controls>>
     /\ lastCall' = "importFromJson"
     /\ UNCHANGED <<pipelineFields, viewFields, pointerFields>>

-----------------------------------------------------------------------------
(* Inputs *)

SeqsUpTo(S, n) == UNION {[1..k -> S] : k \in 0..n}

\* A table of n columns cycling through 5, 6, 4: every step is placed at
\* the full distance.
Ramp(n) == [i \in 1..n |-> 4 + (i % 3)]

\* A table of n columns of 4 with one column of 20 in the middle: the
\* steps into and out of that column cannot be placed at the distance.
Spike(n) == [i \in 1..n |-> IF i = (n + 1) \div 2 THEN 20 ELSE 4]

\* The tables of the single-generation specification: every table of up
\* to MaxLen columns over -1 .. MaxMagnitude, and the long ones.
WideInputs ==
  (SeqsUpTo(-1..MaxMagnitude, MaxLen) \ {<< >>})
  \cup {Ramp(n) : n \in MaxLen + 1..MaxLong}
  \cup {Spike(n) : n \in MaxLen + 1..MaxLong}

\* The arguments of the repeated-calls specification: the short tables
\* over two magnitudes (the empty one among them) and the longest ramp.
CallInputs == SeqsUpTo({1, MaxMagnitude}, MaxCallLen) \cup {Ramp(MaxLong)}

\* The files given to importFromJson: a table of two columns, with and
\* without a baseNumber of its own, with isBaseSet absent or false.
ImportInputs ==
  [tableData : {<<1, MaxMagnitude>>}, baseNumber : {0, 2}, currentValue : {0},
   isBaseSet : {"undefined", "false"}, text : {"json"}]

\* The texts importFromJson rejects: what does not parse, what has no
\* tableData or one that is no array, and what has an empty tableData.
RejectedInputs ==
  [tableData : {<< >>}, baseNumber : {0, 2}, currentValue : {0},
   isBaseSet : {"undefined"}, text : {"json", "no json", "no tableData", "no array"}]

\* The arrays given to setData: none, one column, and two columns that
\* are not a base number apart.
SetDataInputs == {<< >>, <<MaxMagnitude>>, <<1, MaxMagnitude>>}

\* The positions of the mouse and of the touch points.
Positions ==
  {[clientX |-> 0, clientY |-> 0], [clientX |-> 3 * MaxDrag, clientY |-> 4 * MaxDrag]}

\* The wheel events: a turn either way that zooms as much as a pinch along
\* the diagonal.
WheelEvents == [deltaY : {-50 * MaxDrag, 50 * MaxDrag}]

\* The touch events with n to m touch points.
TouchEvents(n, m) == [touches : UNION {[1..k -> Positions] : k \in n..m}]

-----------------------------------------------------------------------------
(* Specifications *)

\* The state the constructors leave; Shape3DRenderer's constructor ends
\* with the first frame, drawn of the empty mesh.
InitWith(data) ==
  /\ tableData = data
  /\ baseRadius = 0
  /\ radiusArray = << >>
  /\ pointCloud = << >>
  /\ consoleWarn = << >>
  /\ AppState_pointCloud = << >>
  /\ infoPanel = updateInfoPanel(NoStats, [points3D |-> << >>, faces |-> << >>])
  /\ envelopePoints = << >>
  /\ points3D = << >>
  /\ faces = << >>
  /\ centroid = [x |-> 0, y |-> 0, z |-> 0]
  /\ rotation = [x |-> 0, y |-> 0, z |-> 0]
  /\ zoom = Scale
  /\ autoRotate = FALSE
  /\ canvas3d = render(<< >>, << >>, [x |-> 0, y |-> 0, z |-> 0],
                       [x |-> 0, y |-> 0, z |-> 0], Scale)
  /\ p2d = [pointCloud |-> << >>, scale |-> Scale, offsetX |-> 0, offsetY |-> 0]
  /\ canvas2d = [points |-> << >>, message |-> FALSE, lines |-> FALSE]
  /\ consoleLog = << >>
  /\ lastCall = "init"
  /\ baseNumber = IF Len(data) = 0 THEN 1 ELSE data[1]
  /\ currentValue = IF Len(data) = 0 THEN 1 ELSE data[Len(data)]
  /\ isBaseSet = (Len(data) > 0)
  /\ controls = [checkBtnShown |-> Len(data) = 0, stayBtnShown |-> Len(data) > 0,
                 resumeBtnDisabled |-> Len(data) = 0]
  /\ tableCall = [returned |-> "undefined", changeCallback |-> 0]
  /\ isDragging = FALSE
  /\ lastMouseX = 0
  /\ lastMouseY = 0
  /\ touches = << >>
  /\ lastTouchDistance = 0

Init == InitWith(<< >>)

\* Repeated calls of the pipeline handler, with and without data, and frames.
Next ==
  \/ \E data \in CallInputs : onGeneratePointCloud(TRUE, data)
  \/ onGeneratePointCloud(FALSE, << >>)
  \/ animate

Spec == Init /\ [][Next]_vars

\* One table, generated: the table is any of WideInputs.
InitWide == \E data \in WideInputs : InitWith(data)

NextWide == GenerateClick

SpecWide == InitWide /\ [][NextWide]_vars

\* The input table edited with its buttons from its initial state, and the
\* generate button.
NextTable ==
  \/ handleUpDown(1)
  \/ handleUpDown(-1)
  \/ handleStay
  \/ handleCheck
  \/ handleResume
  \/ handleReset
  \/ GenerateClick

SpecTable == Init /\ [][NextTable]_vars

\* The mouse, the wheel and the touch screen over the 3D canvas, with the
\* frames and the generate handler called without a table.  A touch event carries every touch point on the screen, so the
\* number of touch points of an event is not tied to that of the event
\* before it.
NextInput ==
  \/ \E e \in Positions : mousedown(e)
  \/ \E e \in Positions : mousemove(e)
  \/ mouseup
  \/ mouseleave
  \/ \E e \in WheelEvents : wheel(e)
  \/ \E e \in TouchEvents(1, MaxTouches) : touchstart(e)
  \/ \E e \in TouchEvents(1, MaxTouches) : touchmove(e)
  \/ \E e \in TouchEvents(0, MaxTouches - 1) : touchend(e)
  \/ touchcancel
  \/ animate
  \/ onGeneratePointCloud(FALSE, << >>)

SpecInput == Init /\ [][NextInput]_vars

\* A table of two columns, its shape generated and turned by
\* auto-rotation.
InitView == InitWith(<<1, MaxMagnitude>>)

NextView ==
  \/ GenerateClick
  \/ animate
  \/ toggleAutoRotate

SpecView == InitView /\ [][NextView]_vars

\* The same with files imported into the table.
NextImport ==
  \/ NextTable
  \/ \E importData \in ImportInputs : importFromJson(importData)

SpecImport == Init /\ [][NextImport]_vars

\* The table edited with its buttons, the reset dialog cancelled as well as
\* accepted, and filled by setData.
NextEdits ==
  \/ handleUpDown(1)
  \/ handleUpDown(-1)
  \/ handleStay
  \/ handleCheck
  \/ handleResume
  \/ handleReset
  \/ handleResetCancelled
  \/ \E data \in SetDataInputs : setData(data)

\* The same with the generate button.
NextData ==
  \/ NextEdits
  \/ GenerateClick

SpecData == Init /\ [][NextData]_vars

\* The same with texts imported, accepted and rejected ones.
NextFiles ==
  \/ NextEdits
  \/ \E importData \in ImportInputs \cup RejectedInputs : importFromJson(importData)

SpecFiles == Init /\ [][NextFiles]_vars

-----------------------------------------------------------------------------
(* Properties of PointCalculator, over SpecWide: tableData is the sequence *)
(* the one calculate call was given.                                       *)

\* A pipeline call has been made.
Called == consoleLog # << >>

\* The returned profile.
profile == AppState_pointCloud

\* console.warn was called for the point with index i.
Warned(i) == \E w \in 1..Len(consoleWarn) : consoleWarn[w] = i

\* spacing^2 - dy^2 of the step to point i, from the calculator's fields
\* and the height of the point before.
discriminantAt(i) ==
  LET spacing == (baseRadius * 13) \div 10
      dy == radiusArray[i].radius - profile[i - 1].y
  IN spacing * spacing - dy * dy

\* C1: the x coordinates of the profile calculate returned never decrease
\* from a point to the next, fallback steps included.
XNonDecreasing ==
  \A i \in 2..Len(profile) : profile[i].x >= profile[i - 1].x

\* A returned profile with a fallback step and a step that moves right.
XNonDecreasingWitness ==
  /\ Called
  /\ \E i \in 2..Len(profile) : Warned(i)
  /\ \E i \in 2..Len(profile) : ~Warned(i) /\ profile[i].x > profile[i - 1].x

\* C2: a step whose discriminant is negative keeps the previous x, takes
\* the target height and is warned about, and the calculation goes on:
\* the profile has a point for every entry, each step of non-negative
\* discriminant placed from the point before it.
FallbackContinues ==
  Called =>
    /\ Len(profile) = Len(tableData)
    /\ \A i \in 2..Len(profile) :
         IF discriminantAt(i) < 0
           THEN /\ profile[i].x = profile[i - 1].x
                /\ profile[i].y = radiusArray[i].radius
                /\ Warned(i)
           ELSE profile[i].x = profile[i - 1].x + Sqrt(discriminantAt(i))

\* A fallback step that is followed by a step moving right.
FallbackContinuesWitness ==
  /\ Called
  /\ \E i \in 2..Len(profile) : \E j \in i + 1..Len(profile) :
       /\ discriminantAt(i) < 0 /\ Warned(i)
       /\ discriminantAt(j) >= 0 /\ profile[j].x > profile[i].x

\* C3: calculate returns one point per entry, in order: point k has index
\* k and the radius of the k-th magnitude as y, and the first x is 0.
ProfileFollowsInput ==
  (Called /\ Len(tableData) > 0) =>
    /\ Len(profile) = Len(tableData)
    /\ \A k \in 1..Len(tableData) :
         /\ profile[k].index = k
         /\ profile[k].y = circumferenceToRadius(tableData[k])
    /\ profile[1].x = 0

\* A profile of a table longer than the exhaustively drawn ones, with
\* magnitudes that differ.
ProfileFollowsInputWitness ==
  /\ Called
  /\ Len(profile) > MaxLen
  /\ \E k \in 2..Len(profile) : profile[k].y # profile[1].y

-----------------------------------------------------------------------------
(* Properties of the pipeline under repeated calls, over Spec *)

\* The most recent pipeline call was given an empty or a missing table.
EmptyInput ==
  Called /\ (~consoleLog[1].given \/ Len(consoleLog[1].data) = 0)

\* C5: on an empty or missing input the pipeline yields empty results:
\* calculate returns the empty profile, generateShape leaves no vertex and
\* no face, the 2D render draws the placeholder message and no point, and
\* every frame after it draws the placeholder message and no face.
EmptyInputEmptyResults ==
  EmptyInput =>
    /\ profile = << >>
    /\ points3D = << >>
    /\ faces = << >>
    /\ canvas2d.message /\ ~canvas2d.lines /\ canvas2d.points = << >>
    /\ lastCall = "animate" =>
         /\ canvas3d.message
         /\ canvas3d.fills = << >> /\ canvas3d.strokes = << >>

\* A frame drawn after an empty input that followed a non-empty one (the
\* calculator still holds the earlier profile).
EmptyInputEmptyResultsWitness ==
  /\ EmptyInput
  /\ lastCall = "animate"
  /\ Len(pointCloud) > 0
  /\ canvas3d.message

\* C6: getStats describes the profile the most recent calculate returned:
\* pointCount is its length, and getStats is null when it is empty; and
\* getPointCloud is that profile.
StatsDescribeLatest ==
  Called =>
    /\ getStats(pointCloud, baseRadius).pointCount = Len(profile)
    /\ Len(profile) = 0 => getStats(pointCloud, baseRadius).isNull
    /\ pointCloud = profile

-----------------------------------------------------------------------------
(* Properties of Shape3DRenderer.generateShape, over SpecWide *)

\* ceil(n / stride) for stride = max(1, floor(n / 8)): the number of
\* profile points the stride loop visits.
strideCount(n) == (n + Max(1, n \div 8) - 1) \div Max(1, n \div 8)

\* The stride loop visits the last profile point (position n - 1).
strideReachesLast(n) == (n - 1) % Max(1, n \div 8) = 0

\* C7: for a profile of two or more points the last point is appended
\* only when the stride loop did not visit it, so it gives exactly one
\* envelope point: the envelope has the stride samples, and one more
\* point only if the last profile point is not among them.
LastPointOnce ==
  (Called /\ Len(profile) >= 2) =>
    Len(envelopePoints) = strideCount(Len(profile))
                          + (IF strideReachesLast(Len(profile)) THEN 0 ELSE 1)

\* C8: the envelope has at most ceil(n / stride) + 1 points; a profile
\* of fewer than two points is returned as it is; and smoothing leaves
\* the number of points the sampling produced.
EnvelopeLengthBounded ==
  Called =>
    /\ Len(envelopePoints) <= strideCount(Len(profile)) + 1
    /\ Len(profile) < 2 => envelopePoints = profile
    /\ Len(profile) >= 2 => Len(envelopePoints) = Len(envelopeSamples(profile))

\* An envelope of a profile sampled with a stride of two, at the bound,
\* which smoothing has changed.
EnvelopeLengthBoundedWitness ==
  /\ Called
  /\ Len(profile) >= 16
  /\ Len(envelopePoints) = strideCount(Len(profile)) + 1
  /\ envelopePoints # envelopeSamples(profile)

\* A cap vertex was stored after the ring vertices.
Capped == Len(points3D) = Len(envelopePoints) * rotationDivisions + 1

\* C9: with L envelope points and D divisions there are L * D vertices
\* when the first envelope point has x = 0 and L * D + 1 when it has not,
\* and the vertex of envelope point k and angular step j is at position
\* k * D + j, with originalIndex k and rotationIndex j.
VertexLayout ==
  Called =>
    LET L == Len(envelopePoints)
        D == rotationDivisions
    IN /\ Len(points3D) = IF L > 0 /\ envelopePoints[1].x # 0 THEN L * D + 1 ELSE L * D
       /\ \A k \in 0..L - 1 : \A j \in 0..D - 1 :
            /\ points3D[k * D + j + 1].originalIndex = k
            /\ points3D[k * D + j + 1].rotationIndex = j
            /\ points3D[k * D + j + 1].x = envelopePoints[k + 1].x

\* A shape of several rings whose first envelope point is off the axis.
VertexLayoutWitness ==
  /\ Called
  /\ Len(envelopePoints) >= 3
  /\ envelopePoints[1].x # 0
  /\ Capped

\* C10: there are 2 * D * (L - 1) side faces, and D cap faces when a cap
\* vertex was stored and none otherwise; the triangles of quad (i, j) are
\* (idx1, idx2, idx3) and (idx1, idx3, idx4), both of hue
\* (30 * i + 5 * j) mod 360.
FaceLayout ==
  (Called /\ Len(envelopePoints) >= 1) =>
    LET L == Len(envelopePoints)
        D == rotationDivisions
        sides == 2 * D * (L - 1)
    IN /\ Len(faces) = sides + (IF Capped THEN D ELSE 0)
       /\ \A i \in 0..L - 2 : \A j \in 0..D - 1 :
            LET idx1 == i * D + j
                idx2 == i * D + ((j + 1) % D)
                idx3 == (i + 1) * D + ((j + 1) % D)
                idx4 == (i + 1) * D + j
                first == faces[2 * (i * D + j) + 1]
                second == faces[2 * (i * D + j) + 2]
            IN /\ first.indices = <<idx1, idx2, idx3>>
               /\ second.indices = <<idx1, idx3, idx4>>
               /\ first.color = <<"hsl", (30 * i + 5 * j) % 360, 70, 60>>
               /\ second.color = first.color
       /\ \A q \in sides + 1..Len(faces) :
            faces[q].indices[1] = L * D /\ faces[q].color = capColor

\* A capped shape with enough rings for the hue to pass 360.
FaceLayoutWitness ==
  /\ Called
  /\ Capped
  /\ 30 * (Len(envelopePoints) - 2) + 5 * (rotationDivisions - 1) >= 360

-----------------------------------------------------------------------------
(* Properties of the stored mesh under repeated calls and frames, over Spec *)

\* C11: whatever profiles generateShape was called with, one after the
\* other, every index of every stored face is one of 0 .. (number of
\* stored vertices - 1); the indices of the side faces of ring i lie in
\* rings i and i + 1 (the angular step wraps), and a cap face has the
\* centre vertex L * D and two cyclically adjacent vertices of ring 0.
FaceIndicesValid ==
  LET L == Len(envelopePoints)
      D == rotationDivisions
      sides == IF L = 0 THEN 0 ELSE 2 * D * (L - 1)
  IN /\ \A q \in 1..Len(faces) : \A k \in 1..3 :
          faces[q].indices[k] >= 0 /\ faces[q].indices[k] < Len(points3D)
     /\ \A q \in 1..Len(faces) :
          IF q <= sides
            THEN LET i == ((q - 1) \div 2) \div D
                 IN \A k \in 1..3 :
                      faces[q].indices[k] \div D = i \/ faces[q].indices[k] \div D = i + 1
            ELSE /\ faces[q].indices[1] = L * D
                 /\ faces[q].indices[3] < D
                 /\ faces[q].indices[2] = (faces[q].indices[3] + 1) % D

\* A frame that drew every face of a capped mesh of several rings.
FaceIndicesValidWitness ==
  /\ lastCall = "animate"
  /\ Capped
  /\ Len(envelopePoints) >= 3
  /\ Len(canvas3d.fills) = Len(faces)
  /\ Len(faces) > 2 * rotationDivisions * (Len(envelopePoints) - 1)

\* c is the mean of one coordinate over all stored vertices, to the grid:
\* it differs from sum / count by less than one unit.
MeanOfVertices(c, field) ==
  Abs(sumOf(points3D, field, 1, Len(points3D)) - Len(points3D) * c) < Len(points3D)

\* C12: the stored centroid is the component-wise mean over all stored
\* vertices of the mesh of the most recent generateShape call, the cap
\* centre vertex counted when there is one, and (0, 0, 0) when there is
\* no vertex; it is never the centroid of an earlier mesh.
CentroidIsMean ==
  IF Len(points3D) = 0
    THEN centroid = [x |-> 0, y |-> 0, z |-> 0]
    ELSE /\ MeanOfVertices(centroid.x, "x")
         /\ MeanOfVertices(centroid.y, "y")
         /\ MeanOfVertices(centroid.z, "z")

\* A capped mesh whose centre vertex lies off the centroid.
CentroidIsMeanWitness ==
  /\ Called
  /\ Capped
  /\ Len(envelopePoints) >= 3
  /\ centroid.x > points3D[Len(points3D)].x

\* C13: a generateShape call with the profile of the call before it (the
\* handler called again with the table it was last called with) leaves
\* the vertices, the faces and the centroid that call left: the centre
\* vertex does not accumulate and the stored mesh plays no part.
GenerateIdempotent ==
  [][(Called /\ lastCall' = "onGeneratePointCloud" /\ consoleLog' = consoleLog)
       => (points3D' = points3D /\ faces' = faces /\ centroid' = centroid)]_vars

\* The capped mesh of a table, the state a repeated call starts from and
\* ends in.
GenerateIdempotentWitness ==
  /\ Called
  /\ consoleLog[1].given /\ Len(consoleLog[1].data) >= 2
  /\ Capped
  /\ lastCall = "onGeneratePointCloud"


-----------------------------------------------------------------------------
(* The cap of the base end, over SpecWide *)

-----------------------------------------------------------------------------
(* Properties of the input table, over SpecTable *)

\* C17: every sequence the generate button hands to its callback is
\* non-empty and holds only values of 1 and more, whatever Up, Down, Stay,
\* Check, Resume and Reset clicks came before
HandedSequencesPositive ==
  lastCall = "onGeneratePointCloud"
    => /\ consoleLog[1].given
       /\ Len(consoleLog[1].data) >= 1
       /\ \A i \in 1..Len(consoleLog[1].data) : consoleLog[1].data[i] >= 1

\* The stored mesh.
storedMesh == <<points3D, faces, centroid>>

\* The step replaces something of the stored mesh.
MeshChanges == storedMesh' # storedMesh

-----------------------------------------------------------------------------
(* Properties of the view under pointer input, over SpecInput *)

\* The step changes the zoom.
ZoomChanges == zoom' # zoom

\* C19: the zoom is always within [0.1, 5], so above 0, whatever wheel and
\* pinch events came before, and only the wheel listener and a touchmove
\* with two touch points change it
ZoomWithinRange ==
  /\ [](zoom >= Scale \div 10 /\ zoom <= 5 * Scale /\ zoom > 0)
  /\ [][ZoomChanges =>
          \/ lastCall' = "wheel"
          \/ lastCall' = "touchmove" /\ Len(touches') = 2]_vars

ZoomWithinRangeWitness ==
  /\ lastCall = "touchmove"
  /\ Len(touches) = 2
  /\ zoom = Scale \div 10
  /\ lastTouchDistance = 0

\* The step sets isDragging from false to true.
DragStarts == ~isDragging /\ isDragging'

\* The step changes the rotation.
RotationChanges == rotation' # rotation

\* C20: isDragging turns true only by mousedown or by a touchstart or
\* touchend that leaves exactly one touch point; it is false after
\* mouseup, mouseleave, touchcancel, the touchend of the last touch point
\* and the touchstart of a second one; the rotation changes only by a
\* mousemove, or a touchmove of one touch point, made while isDragging is
\* true; a touchmove of two touch points changes the zoom alone
DragGovernsRotation ==
  [][/\ DragStarts =>
          \/ lastCall' = "mousedown"
          \/ lastCall' \in {"touchstart", "touchend"} /\ Len(touches') = 1
     /\ lastCall' \in {"mouseup", "mouseleave", "touchcancel"} => ~isDragging'
     /\ (lastCall' = "touchend" /\ Len(touches') = 0) => ~isDragging'
     /\ (lastCall' = "touchstart" /\ Len(touches') = 2) => ~isDragging'
     /\ RotationChanges =>
          /\ isDragging
          /\ \/ lastCall' = "mousemove"
             \/ lastCall' = "touchmove" /\ Len(touches') = 1
     /\ (lastCall' = "touchmove" /\ Len(touches') = 2) =>
          UNCHANGED <<rotation, isDragging, lastMouseX, lastMouseY, autoRotate>>
    ]_vars

DragGovernsRotationWitness ==
  /\ lastCall = "touchmove"
  /\ Len(touches) = 1
  /\ isDragging
  /\ rotation.y > 0
  /\ zoom > Scale


-----------------------------------------------------------------------------
(* Properties of the frames, over SpecView *)

\* The depth the frame drawn last gave the face at 0-based position f.
depthInFrame(f, trig) == faceDepth(faces[f + 1], points3D, centroid, trig)

\* The step is a frame.
Frame == lastCall' = "animate"

\* C14: a frame of a stored mesh fills every face once, in an order of
\* non-decreasing depth (the mean rotated z of the face's vertices), and
\* then strokes every face in the order of the stored list, every stroke
\* after the last fill; the frame leaves the stored list as it is
FrameDrawOrder ==
  /\ []((lastCall = "animate" /\ Len(points3D) > 0) =>
          /\ ~canvas3d.message
          /\ Len(canvas3d.fills) = Len(faces)
          /\ \A f \in 0..(Len(faces) - 1) :
               Cardinality({k \in 1..Len(faces) : canvas3d.fills[k] = f}) = 1
          /\ \A trig \in {viewTrig(rotation)} :
               \A depth \in {[k \in 1..Len(faces) |->
                                 depthInFrame(canvas3d.fills[k], trig)]} :
                 \A k \in 1..(Len(faces) - 1) : depth[k] <= depth[k + 1]
          /\ canvas3d.strokes = [k \in 1..Len(faces) |-> k - 1]
          /\ Len(canvas3d.calls) = 2 * Len(faces)
          /\ \A k \in 1..Len(canvas3d.calls) :
               canvas3d.calls[k] =
                 IF k <= Len(faces)
                   THEN [face |-> canvas3d.fills[k], call |-> "fill"]
                   ELSE [face |-> k - Len(faces) - 1, call |-> "stroke"])
  /\ [][Frame => faces' = faces]_vars

FrameDrawOrderWitness ==
  /\ lastCall = "animate"
  /\ Len(faces) > 2 * rotationDivisions
  /\ rotation.y > 0
  /\ Len(canvas3d.fills) = Len(faces)
  /\ canvas3d.fills # canvas3d.strokes

\* C16: a frame adds 0.01 to rotation.y when autoRotate is set and leaves
\* it otherwise; it never changes rotation.x, rotation.z, the zoom or the
\* stored mesh; the view starts with no rotation and zoom 1 and the
\* generate handler leaves it as it is; a frame that follows a frame with
\* autoRotate off draws every vertex where the frame before drew it
FrameChangesOnlyAutoRotation ==
  /\ rotation = [x |-> 0, y |-> 0, z |-> 0]
  /\ zoom = Scale
  /\ [][Frame =>
          /\ rotation'.y = IF autoRotate THEN rotation.y + Scale \div 100
                                         ELSE rotation.y
          /\ rotation'.x = rotation.x
          /\ rotation'.z = rotation.z
          /\ UNCHANGED <<zoom, autoRotate, storedMesh>>
          /\ (lastCall = "animate" /\ ~autoRotate) =>
                canvas3d'.projected = canvas3d.projected]_vars
  /\ [][lastCall' = "onGeneratePointCloud" =>
          UNCHANGED <<rotation, zoom, autoRotate>>]_vars

FrameChangesOnlyAutoRotationWitness ==
  /\ lastCall = "animate"
  /\ autoRotate
  /\ rotation.y >= 2 * (Scale \div 100)
  /\ Len(canvas3d.projected) > rotationDivisions


-----------------------------------------------------------------------------
(* Properties of the table's fields, over SpecData and SpecFiles *)

\* The step appends one column to a table that has one.
ColumnAdded ==
  /\ Len(tableData) > 0
  /\ Len(tableData') = Len(tableData) + 1
  /\ SubSeq(tableData', 1, Len(tableData)) = tableData

\* The column the step appends less the column before it.
addedStep == tableData'[Len(tableData')] - tableData[Len(tableData)]

\* C21: whatever Up, Down, Stay, Check, Resume, Reset (accepted or
\* cancelled) and setData calls came before, isBaseSet is true exactly when
\* the table has a column, the first column equals baseNumber, and a
\* column added by Up, by Stay or Check, or by Down is the column before it
\* plus baseNumber, plus 0, or less baseNumber
TableFollowsBase ==
  /\ [](isBaseSet <=> Len(tableData) > 0)
  /\ [](Len(tableData) > 0 => tableData[1] = baseNumber)
  /\ [][(ColumnAdded /\ handleUpDown(1)) => addedStep = baseNumber]_vars
  /\ [][(ColumnAdded /\ handleUpDown(-1)) => addedStep = -baseNumber]_vars
  /\ [][(ColumnAdded /\ lastCall' \in {"handleStay", "handleCheck"})
          => addedStep = 0]_vars
  /\ [][(Len(tableData') > Len(tableData) /\ lastCall' # "setData") =>
          /\ lastCall' \in {"handleUpDown", "handleStay", "handleCheck"}
          /\ Len(tableData) = 0 => lastCall' = "handleCheck"]_vars

TableFollowsBaseWitness ==
  /\ lastCall = "handleUpDown"
  /\ isBaseSet
  /\ baseNumber >= 2
  /\ Len(tableData) = 2
  /\ tableData[2] = tableData[1] - baseNumber

\* The step is importFromJson of a text it rejects.
ImportRejected == \E importData \in RejectedInputs : importFromJson(importData)

\* C22: importFromJson of a text that does not parse, has no tableData
\* array or an empty one returns false, leaves tableData, baseNumber,
\* currentValue and isBaseSet as they were and does not invoke the change
\* callback; of any other text it returns true, replaces tableData by the
\* imported sequence and invokes the change callback once
ImportAllOrNothing ==
  /\ [][ImportRejected =>
          /\ tableCall'.returned = "false"
          /\ tableCall'.changeCallback = 0
          /\ UNCHANGED <<tableData, baseNumber, currentValue, isBaseSet>>]_vars
  /\ [][\A importData \in ImportInputs :
          importFromJson(importData) =>
            /\ tableCall'.returned = "true"
            /\ tableCall'.changeCallback = 1
            /\ tableData' = importData.tableData]_vars
  /\ [][lastCall' = "importFromJson" =>
          tableCall'.returned \in {"true", "false"}]_vars

ImportAllOrNothingWitness ==
  /\ lastCall = "importFromJson"
  /\ tableCall.returned = "false"
  /\ isBaseSet
  /\ Len(tableData) = 2
  /\ tableData[1] # baseNumber

=============================================================================
